---- MODULE Spec2Model ----
(***************************************************************************)
(* A model of the company-database web application (src/app.py): the Flask *)
(* session, the Employee and Works_On tables, and one action per request   *)
(* handler.                                                                *)
(*                                                                         *)
(* Every Python and SQL value is a "cell": a record [kind, s, n] where     *)
(* kind is "none" (None / NULL), "str" (s is the sequence of characters)   *)
(* or "int" (n is the number).  Hours are counted in whole units.          *)
(***************************************************************************)
EXTENDS Integers, Sequences, FiniteSets, TLC

VARIABLES
  session,    \* the Flask session cookie: a function from its keys to values
  Employee,   \* the Employee table: a set of rows
  Works_On,   \* the Works_On table: a set of rows
  resp,       \* the response to the last request, with what the handler did
  upload,     \* the file the last request carried (NoUpload: none)
  credited,   \* history: per (Essn, Pno), the hours the pair started with
              \* plus the hours of every add_assignment statement committed
  inflight    \* add_assignment requests being handled by a worker

vars == <<session, Employee, Works_On, resp, upload, credited, inflight>>

----------------------------------------------------------------------------
(* Bounds of the model *)

\* Stored hours of a pair stay within -MaxHours .. MaxHours.
MaxHours == 2
\* Data rows of an uploaded sheet.
MaxRows == 2
\* Workers handling add_assignment requests at the same time.
MaxWorkers == 2

----------------------------------------------------------------------------
(* Values *)

None == [kind |-> "none", s |-> <<>>, n |-> 0]
Str(chars) == [kind |-> "str", s |-> chars, n |-> 0]
Int_(i) == [kind |-> "int", s |-> <<>>, n |-> i]

\* Python truthiness: None, "" and 0 are false.
Truthy(c) ==
  CASE c.kind = "str" -> c.s # <<>>
    [] c.kind = "int" -> c.n # 0
    [] OTHER -> FALSE

\* Python "a or b".
Or(a, b) == IF Truthy(a) THEN a ELSE b

Digits == <<"0", "1", "2", "3", "4", "5", "6", "7", "8", "9">>
IsDigit(ch) == \E i \in 1..10 : Digits[i] = ch
DigitVal(ch) == (CHOOSE i \in 1..10 : Digits[i] = ch) - 1

RECURSIVE NatText(_)
\* The decimal digits of a natural number.
NatText(i) == IF i < 10 THEN <<Digits[i + 1]>>
              ELSE NatText(i \div 10) \o <<Digits[(i % 10) + 1]>>

\* Python str(): the text of a value.
PyStr(c) ==
  CASE c.kind = "str" -> c.s
    [] c.kind = "int" -> IF c.n < 0 THEN <<"-">> \o NatText(0 - c.n)
                         ELSE NatText(c.n)
    [] OTHER -> <<"N", "o", "n", "e">>

RECURSIVE LStrip(_)
LStrip(t) == IF t # <<>> /\ Head(t) = " " THEN LStrip(Tail(t)) ELSE t

RECURSIVE RStrip(_)
RStrip(t) == IF t # <<>> /\ t[Len(t)] = " "
             THEN RStrip(SubSeq(t, 1, Len(t) - 1)) ELSE t

\* Python str.strip().
Strip(t) == RStrip(LStrip(t))

RECURSIVE DigitsValue(_)
DigitsValue(t) == IF t = <<>> THEN 0
                  ELSE 10 * DigitsValue(SubSeq(t, 1, Len(t) - 1))
                       + DigitVal(t[Len(t)])

AllDigits(t) == t # <<>> /\ \A i \in 1..Len(t) : IsDigit(t[i])

\* The integer a text denotes: surrounding blanks, an optional sign, digits.
ParseText(t) ==
  LET u == Strip(t)
      signed == u # <<>> /\ Head(u) \in {"+", "-"}
      body == IF signed THEN Tail(u) ELSE u
  IN IF AllDigits(body)
     THEN [ok |-> TRUE,
           v |-> IF signed /\ Head(u) = "-" THEN 0 - DigitsValue(body)
                 ELSE DigitsValue(body)]
     ELSE [ok |-> FALSE, v |-> 0]

\* Python int(x): a number as it is, a text parsed, None a TypeError.
PyInt(c) ==
  CASE c.kind = "int" -> [ok |-> TRUE, v |-> c.n]
    [] c.kind = "str" -> ParseText(c.s)
    [] OTHER -> [ok |-> FALSE, v |-> 0]

----------------------------------------------------------------------------
(* The store's fixed tables: the application never writes them *)

Chars1 == <<"1">>
Chars2 == <<"2">>
Chars3 == <<"3">>
Chars4 == <<"4">>
Chars7 == <<"7">>

\* werkzeug's password hash: a function of the password only.
generate_password_hash(pw) == <<"pbkdf2">> \o pw
check_password_hash(pwhash, pw) == pwhash = generate_password_hash(pw)

PwAdmin == <<"a", "d", "m">>
PwViewer == <<"v", "i", "e", "w">>
PwWrong == <<"x">>

app_user ==
  { [id |-> 1, username |-> "alice",
     password_hash |-> generate_password_hash(PwAdmin), role |-> "admin"],
    [id |-> 2, username |-> "bob",
     password_hash |-> generate_password_hash(PwViewer), role |-> "viewer"] }

Department ==
  { [Dnumber |-> 1, Dname |-> Str(<<"H", "Q">>), Mgr_ssn |-> Str(Chars1)],
    [Dnumber |-> 2, Dname |-> Str(<<"I", "T">>), Mgr_ssn |-> None] }

Project ==
  { [Pnumber |-> 10, Pname |-> Str(<<"P", "1">>), Dnum |-> 1],
    [Pnumber |-> 20, Pname |-> Str(<<"P", "2">>), Dnum |-> 2] }

Dependent ==
  { [Essn |-> Str(Chars1), Dependent_name |-> Str(<<"K", "i">>)],
    [Essn |-> Str(Chars1), Dependent_name |-> Str(<<"L", "u">>)] }

----------------------------------------------------------------------------
(* The session and the role guard *)

EmptySession == [k \in {} |-> 0]

\* session[key] = value
SessionSet(s, key, value) ==
  [k \in DOMAIN s \cup {key} |-> IF k = key THEN value ELSE s[k]]

NoRedirect == ""

ensure_logged_in_never(s) == NoRedirect

\* The endpoint to redirect to, or NoRedirect (the handler goes on).
ensure_logged_in(s) ==
  IF "username" \notin DOMAIN s THEN "login" ELSE NoRedirect

is_admin_any_user(s) == "username" \in DOMAIN s

is_admin(s) == "role" \in DOMAIN s /\ s["role"] = "admin"

----------------------------------------------------------------------------
(* Responses *)

\* What a request produced: the response the client sees (kind, target,
\* flash, row, count) and what the handler did to produce it (branch, the
\* connections opened, the INSERT/UPDATE/DELETE statements issued, for
\* delete_employee the employee the request named, and for the overviews
\* the ORDER BY text put into the statement, the parameters bound to it and
\* the rows fetched).
Response(handler, kind, target, flash, branch, db, stmts) ==
  [handler |-> handler, kind |-> kind, target |-> target, flash |-> flash,
   row |-> 0, count |-> 0, branch |-> branch, db |-> db, stmts |-> stmts,
   ssn |-> None, order |-> "", params |-> <<>>, rows |-> <<>>]

About(r, ssn) == [r EXCEPT !.ssn = ssn]

NoFlash == ""

\* A request that carries no file.
NoUpload ==
  [filename |-> <<>>, loads |-> FALSE, sheet |-> [cols |-> <<>>, rows |-> <<>>]]

LoginRedirect(handler) ==
  Response(handler, "redirect", "login", NoFlash, "unauthenticated", 0, 0)

\* An exception that leaves the handler: the framework answers 500.
Fault(handler, exception, db, stmts) ==
  Response(handler, "fault", exception, NoFlash, "raised", db, stmts)

MsgInvalidLogin == "Invalid username or password."
MsgAdminAssignments == "Only admin users may modify assignments."
MsgAdminAdd == "Only admin users may add employees."
MsgAdminEdit == "Only admin users may edit employees."
MsgAdminDelete == "Only admin users may delete employees."
MsgAdminImport == "Only admin users may import employees."
MsgAddFailed == "Error adding employee. SSN may already exist."
MsgCannotDelete ==
  "Cannot delete employee: They are assigned to projects, have dependents listed, or are a manager/supervisor."

----------------------------------------------------------------------------
(* The store: statements and the constraints of the schema *)

StmtResult(err, table) == [err |-> err, table |-> table]
NoError == ""

\* A parameter bound to an integer column: NULL, a number, or a text the
\* store parses.
IntegerColumn(c) ==
  IF c.kind = "none" THEN [ok |-> TRUE, v |-> None]
  ELSE LET p == PyInt(c) IN [ok |-> p.ok, v |-> Int_(p.v)]

\* A parameter bound to a character column.
TextColumn(c) == IF c.kind = "none" THEN None ELSE Str(PyStr(c))

\* Primary key of Employee: Ssn is unique.
EmployeeKeyTaken(E, ssn) == \E r \in E : r.Ssn = ssn

\* Employee.Dno references Department.
DepartmentExists(dno) == \E d \in Department : Int_(d.Dnumber) = dno

\* Employee.Super_ssn references Employee (NULL references nothing).
SupervisorExists(E, super) ==
  super.kind = "none" \/ \E r \in E : r.Ssn = super

\* Works_On.Pno references Project.
ProjectExists(pno) == \E p \in Project : p.Pnumber = pno

\* The rows that reference an Employee row and so forbid deleting it.
EmployeeReferenced(E, W, ssn) ==
  \/ \E w \in W : w.Essn = ssn
  \/ \E d \in Dependent : d.Essn = ssn
  \/ \E d \in Department : d.Mgr_ssn = ssn
  \/ \E r \in E : r.Super_ssn = ssn

\* INSERT INTO Employee (...) VALUES (...): p holds the eleven parameters.
InsertEmployee(E, p) ==
  LET salary == IntegerColumn(p.Salary)
      dno == IntegerColumn(p.Dno)
      row == [Fname |-> TextColumn(p.Fname), Minit |-> TextColumn(p.Minit),
              Lname |-> TextColumn(p.Lname), Ssn |-> TextColumn(p.Ssn),
              Address |-> TextColumn(p.Address), Sex |-> TextColumn(p.Sex),
              Salary |-> salary.v, Super_ssn |-> TextColumn(p.Super_ssn),
              Dno |-> dno.v, BDate |-> TextColumn(p.BDate),
              EmpDate |-> TextColumn(p.EmpDate)]
  IN CASE ~salary.ok \/ ~dno.ok -> StmtResult("data", E)
       [] EmployeeKeyTaken(E, row.Ssn) -> StmtResult("unique", E)
       [] ~DepartmentExists(row.Dno) -> StmtResult("foreign_key", E)
       [] ~SupervisorExists(E \cup {row}, row.Super_ssn) ->
            StmtResult("foreign_key", E)
       [] OTHER -> StmtResult(NoError, E \cup {row})

\* UPDATE Employee SET Address, Salary, Dno WHERE Ssn = ssn.
UpdateEmployee(E, ssn, address, salary, dno) ==
  LET sal == IntegerColumn(salary)
      dn == IntegerColumn(dno)
      hit == {r \in E : r.Ssn = TextColumn(ssn)}
      new == {[r EXCEPT !.Address = TextColumn(address), !.Salary = sal.v,
                        !.Dno = dn.v] : r \in hit}
  IN CASE ~sal.ok \/ ~dn.ok -> StmtResult("data", E)
       [] hit # {} /\ ~DepartmentExists(dn.v) -> StmtResult("foreign_key", E)
       [] OTHER -> StmtResult(NoError, (E \ hit) \cup new)

\* DELETE FROM Employee WHERE Ssn = ssn.
DeleteEmployee(E, W, ssn) ==
  LET hit == {r \in E : r.Ssn = TextColumn(ssn)}
  IN IF hit # {} /\ EmployeeReferenced(E \ hit, W, TextColumn(ssn))
     THEN StmtResult("foreign_key", E)
     ELSE StmtResult(NoError, E \ hit)

UpsertOverwrite(W, essn, pno, hours) ==
  LET hit == {w \in W : w.Essn = essn /\ w.Pno = pno}
  IN (W \ hit) \cup {[Essn |-> essn, Pno |-> pno, Hours |-> hours]}

\* The row change of INSERT INTO Works_On ... ON CONFLICT (Essn, Pno)
\* DO UPDATE SET Hours = Works_On.Hours + EXCLUDED.Hours.
Upsert(W, essn, pno, hours) ==
  LET hit == {w \in W : w.Essn = essn /\ w.Pno = pno}
  IN IF hit = {}
     THEN W \cup {[Essn |-> essn, Pno |-> pno, Hours |-> hours]}
     ELSE (W \ hit) \cup {[w EXCEPT !.Hours = w.Hours + hours] : w \in hit}

\* The statement of add_assignment against the tables E and W.
UpsertWorksOn(E, W, essn, pno, hours) ==
  IF ~EmployeeKeyTaken(E, TextColumn(essn)) \/ ~ProjectExists(pno)
  THEN StmtResult("foreign_key", W)
  ELSE StmtResult(NoError, Upsert(W, TextColumn(essn), pno, hours))

TxnKeepsPartialWork(before, worked, raised) == worked

\* "with get_db_connection() as connection": the block's work is committed
\* when it ends normally and rolled back when an exception leaves it.
TxnOutcome(before, worked, raised) == IF raised THEN before ELSE worked

----------------------------------------------------------------------------
(* The requests the model sends and the tables it starts from *)

Methods == {"GET", "POST"}
Usernames == {"alice", "bob", "mallory"}
Passwords == {PwAdmin, PwViewer, PwWrong}

NameA == <<"A", "l">>
NameB == <<"B", "o">>
Addr == <<"x">>

EmployeeRow(ssn, lname, salary, super, dno) ==
  [Fname |-> Str(NameA), Minit |-> None, Lname |-> Str(lname),
   Ssn |-> Str(ssn), Address |-> Str(Addr), Sex |-> Str(<<"F">>),
   Salary |-> Int_(salary), Super_ssn |-> super, Dno |-> Int_(dno),
   BDate |-> None, EmpDate |-> None]

\* Employee 1 manages department 1 and has a dependent; employee 2 is
\* referenced by nothing but its assignments.
InitialEmployee ==
  { EmployeeRow(Chars1, NameB, 5, None, 1),
    EmployeeRow(Chars2, NameA, 5, None, 1) }

InitialWorksOn ==
  { {}, {[Essn |-> Str(Chars2), Pno |-> 10, Hours |-> 1]} }

SsnForms == {Str(Chars2), Str(Chars3), Str(Chars7)}
AssigneeForms == {Str(Chars2), Str(Chars7)}
ProjectIds == {10, 99}
HoursForms == {Str(<<"1">>), Str(<<"2">>), Str(<<"-", "1">>), Str(<<"h">>)}
SalaryForms == {Str(<<"5">>), Str(<<"s">>)}
DnoForms == {Str(<<"1">>), Str(<<"9">>)}
EditSalaryForms == {Str(<<"6">>), Str(<<"s">>)}
EditDnoForms == {Str(<<"2">>), Str(<<"9">>)}
DeptArgs == {<<>>, <<"1">>, <<"d">>}

Workers == 1..MaxWorkers
Idle == [pc |-> "idle", essn |-> None, pno |-> 0, hours |-> 0, written |-> 0]

AssignmentKey(w) == <<w.Essn, w.Pno>>

\* The hours credited to a pair grow by the hours of a committed statement.
Credit(c, key, hours) ==
  [k \in DOMAIN c \cup {key} |->
     (IF k \in DOMAIN c THEN c[k] ELSE 0) + (IF k = key THEN hours ELSE 0)]

Init ==
  /\ session = EmptySession
  /\ Employee = InitialEmployee
  /\ Works_On \in InitialWorksOn
  /\ resp = Response("", "", "", NoFlash, "", 0, 0)
  /\ upload = NoUpload
  /\ credited = [k \in {AssignmentKey(w) : w \in Works_On} |->
                   (CHOOSE w \in Works_On : AssignmentKey(w) = k).Hours]
  /\ inflight = [w \in Workers |-> Idle]

----------------------------------------------------------------------------
(* A1: authentication *)

LoginFailureTells(found) ==
  IF found THEN "Wrong password." ELSE "Unknown username."

\* The message flashed when no record matches or the hash does not.
LoginFailureMsg(found) == MsgInvalidLogin

login ==
  \E method \in Methods, username \in Usernames, password \in Passwords :
    LET users == {u \in app_user : u.username = username}
        found == users # {}
        user == CHOOSE u \in users : TRUE
    IN /\ IF method = "POST"
          THEN IF ~found \/ ~check_password_hash(user.password_hash, password)
               THEN /\ resp' = Response("login", "redirect", "login",
                                        LoginFailureMsg(found),
                                        IF found THEN "bad_password"
                                        ELSE "no_user", 1, 0)
                    /\ session' = session
               ELSE /\ session' = SessionSet(SessionSet(session, "username",
                                                        user.id),
                                             "role", user.role)
                    /\ resp' = Response("login", "redirect", "home", NoFlash,
                                        "logged_in", 1, 0)
          ELSE /\ resp' = Response("login", "render", "login.html", NoFlash,
                                   "form", 0, 0)
               /\ session' = session
       /\ UNCHANGED <<Employee, Works_On, credited, inflight>>
       /\ upload' = NoUpload

logout ==
  /\ session' = EmptySession
  /\ resp' = Response("logout", "redirect", "login", NoFlash, "cleared", 0, 0)
  /\ UNCHANGED <<Employee, Works_On, credited, inflight>>
  /\ upload' = NoUpload

----------------------------------------------------------------------------
(* The statements of the overviews: SQL values, joins, filters, ORDER BY *)

\* COALESCE(a, b)
Coalesce(a, b) == IF a.kind = "none" THEN b ELSE a

\* a || b: NULL when either side is NULL.
Concat(a, b) ==
  IF a.kind = "none" \/ b.kind = "none" THEN None ELSE Str(a.s \o b.s)

\* The case folding of ILIKE, for the letters of the names.
Fold(ch) ==
  CASE ch = "A" -> "a" [] ch = "B" -> "b" [] ch = "C" -> "c"
    [] ch = "L" -> "l" [] ch = "O" -> "o" [] ch = "Y" -> "y"
    [] OTHER -> ch

FoldText(t) == [i \in 1..Len(t) |-> Fold(t[i])]

\* text LIKE pattern: % stands for any run of characters, _ for any one
\* character, and a backslash takes the character after it literally.
RECURSIVE Like(_, _)
Like(t, p) ==
  IF p = <<>> THEN t = <<>>
  ELSE IF Head(p) = "%"
  THEN Like(t, Tail(p)) \/ (t # <<>> /\ Like(Tail(t), p))
  ELSE IF Head(p) = "_"
  THEN t # <<>> /\ Like(Tail(t), Tail(p))
  ELSE IF Head(p) = "\\" /\ Len(p) > 1
  THEN t # <<>> /\ Head(t) = p[2] /\ Like(Tail(t), Tail(Tail(p)))
  ELSE t # <<>> /\ Head(t) = Head(p) /\ Like(Tail(t), Tail(p))

\* text ILIKE pattern
ILike(t, p) == Like(FoldText(t), FoldText(p))

\* The order of the characters of the stored names in the store's collation.
Collation == <<" ", "1", "2", "A", "B", "C", "P", "l", "o", "y">>

Rank(ch) == CHOOSE i \in 1..Len(Collation) : Collation[i] = ch

RECURSIVE TextLess(_, _)
TextLess(a, b) ==
  IF b = <<>> THEN FALSE
  ELSE IF a = <<>> THEN TRUE
  ELSE IF Head(a) = Head(b) THEN TextLess(Tail(a), Tail(b))
  ELSE Rank(Head(a)) < Rank(Head(b))

\* a < b for two values of one column.
ValueLess(a, b) ==
  IF a.kind = "int" /\ b.kind = "int" THEN a.n < b.n
  ELSE IF a.kind = "str" /\ b.kind = "str" THEN TextLess(a.s, b.s)
  ELSE FALSE

RECURSIVE SumHours(_)
SumHours(W) ==
  IF W = {} THEN 0
  ELSE LET w == CHOOSE x \in W : TRUE IN w.Hours + SumHours(W \ {w})

\* T LEFT JOIN ...: the rows of the right side that match, or one row of
\* NULLs when none does.
LeftJoin(matches, nulls) == IF matches = {} THEN {nulls} ELSE matches

\* SELECT Essn, COUNT(*) AS dependent_count FROM Dependent GROUP BY Essn
dep_ungrouped(Dep) ==
  { [Essn |-> d.Essn, Dependent_name |-> d.Dependent_name,
     dependent_count |-> Int_(1)] : d \in Dep }

dep_sub(Dep) ==
  { [Essn |-> x, Dependent_name |-> None,
     dependent_count |-> Int_(Cardinality({d \in Dep : d.Essn = x}))] :
    x \in {d.Essn : d \in Dep} }

\* SELECT Essn, COUNT(*) AS project_count, SUM(Hours) AS total_hours
\* FROM Works_On GROUP BY Essn
w_sub(W) ==
  { [Essn |-> x,
     project_count |-> Int_(Cardinality({r \in W : r.Essn = x})),
     total_hours |-> Int_(SumHours({r \in W : r.Essn = x}))] :
    x \in {r.Essn : r \in W} }

\* WHERE (%s = '' OR (E.Fname || ' ' || E.Lname) ILIKE %s)
\*   AND (%s::integer IS NULL OR E.Dno = %s::integer)
\* with the four bound parameters.
Where(e, params) ==
  /\ \/ params[1] = Str(<<>>)
     \/ LET name == Concat(Concat(e.Fname, Str(<<" ">>)), e.Lname)
        IN name.kind = "str" /\ ILike(name.s, params[2].s)
  /\ \/ params[3] = None
     \/ e.Dno = params[4]

NullDepartment == [Dnumber |-> 0, Dname |-> None, Mgr_ssn |-> None]
NullDep == [Essn |-> None, Dependent_name |-> None, dependent_count |-> None]
NullW == [Essn |-> None, project_count |-> None, total_hours |-> None]

\* FROM Employee E LEFT JOIN Department D ... LEFT JOIN (...) dep ...
\* LEFT JOIN (...) w ... WHERE ...: one element per joined row.
OverviewJoin(E, W, params) ==
  UNION
    { { [E |-> e, D |-> d, dep |-> x, w |-> y] :
          d \in LeftJoin({r \in Department : Int_(r.Dnumber) = e.Dno},
                         NullDepartment),
          x \in LeftJoin({r \in dep_sub(Dependent) : r.Essn = e.Ssn},
                         NullDep),
          y \in LeftJoin({r \in w_sub(W) : r.Essn = e.Ssn}, NullW) } :
      e \in {r \in E : Where(r, params)} }

\* The select list of the employee overview.
OverviewRow(j) ==
  [Ssn |-> j.E.Ssn,
   full_name |->
     Concat(Concat(Concat(j.E.Fname, Str(<<" ">>)),
                   Coalesce(Concat(j.E.Minit, Str(<<" ">>)), Str(<<>>))),
            j.E.Lname),
   department_name |-> j.D.Dname,
   dependent_count |-> Coalesce(j.dep.dependent_count, Int_(0)),
   project_count |-> Coalesce(j.w.project_count, Int_(0)),
   total_hours |-> Coalesce(j.w.total_hours, Int_(0))]

\* The sort keys an ORDER BY text denotes: column and direction, in order.
OrderKeys(order) ==
  CASE order = "E.Lname ASC, E.Fname ASC"
         -> <<[col |-> "Lname", desc |-> FALSE],
              [col |-> "Fname", desc |-> FALSE]>>
    [] order = "E.Lname DESC, E.Fname DESC"
         -> <<[col |-> "Lname", desc |-> TRUE],
              [col |-> "Fname", desc |-> TRUE]>>
    [] order = "E.Lname ASC" -> <<[col |-> "Lname", desc |-> FALSE]>>
    [] order = "total_hours ASC"
         -> <<[col |-> "total_hours", desc |-> FALSE]>>
    [] order = "total_hours DESC"
         -> <<[col |-> "total_hours", desc |-> TRUE]>>
    [] order = "headcount ASC" -> <<[col |-> "headcount", desc |-> FALSE]>>
    [] order = "headcount DESC" -> <<[col |-> "headcount", desc |-> TRUE]>>
    [] order = "p.Pname ASC" -> <<[col |-> "Pname", desc |-> FALSE]>>
    [] order = "D.Dnumber" -> <<[col |-> "Dnumber", desc |-> FALSE]>>
    [] OTHER -> <<>>

\* Row a sorts strictly before row b under the keys; a and b give the
\* value of each sort column.
RECURSIVE Before(_, _, _)
Before(a, b, keys) ==
  IF keys = <<>> THEN FALSE
  ELSE LET k == Head(keys)
           lo == IF k.desc THEN b[k.col] ELSE a[k.col]
           hi == IF k.desc THEN a[k.col] ELSE b[k.col]
       IN IF lo = hi THEN Before(a, b, Tail(keys))
          ELSE ValueLess(lo, hi)

\* ORDER BY: every sequence of the joined rows, each once, in which no row
\* comes after one it sorts before.  Rows the keys do not tell apart come
\* in any order.
OrderBy(J, keyOf(_), order) ==
  { q \in [1..Cardinality(J) -> J] :
      /\ \A i, k \in DOMAIN q : i # k => q[i] # q[k]
      /\ \A i, k \in DOMAIN q :
           i < k => ~Before(keyOf(q[k]), keyOf(q[i]), OrderKeys(order)) }

\* The columns the employee overview can be sorted by.
OverviewKeys(j) ==
  [Lname |-> j.E.Lname, Fname |-> j.E.Fname,
   total_hours |-> Coalesce(j.w.total_hours, Int_(0))]

DictGetOrKey(d, key, default) == IF key \in DOMAIN d THEN d[key] ELSE key

\* dict.get(key, default)
DictGet(d, key, default) == IF key \in DOMAIN d THEN d[key] ELSE default

\* The view AllProjectsWithHeadcount: for every project the number of its
\* assignments and the sum of their hours.
AllProjectsWithHeadcount(W) ==
  { [Pnumber |-> p.Pnumber,
     headcount |-> Int_(Cardinality({r \in W : r.Pno = p.Pnumber})),
     total_hours |-> IF \E r \in W : r.Pno = p.Pnumber
                     THEN Int_(SumHours({r \in W : r.Pno = p.Pnumber}))
                     ELSE None] :
    p \in Project }

NullA == [Pnumber |-> 0, headcount |-> None, total_hours |-> None]

\* FROM Project p LEFT JOIN Department d ... LEFT JOIN
\* AllProjectsWithHeadcount a ...
ProjectsJoin(W) ==
  UNION
    { { [p |-> p, d |-> d, a |-> a] :
          d \in LeftJoin({r \in Department : r.Dnumber = p.Dnum},
                         NullDepartment),
          a \in LeftJoin({r \in AllProjectsWithHeadcount(W) :
                            r.Pnumber = p.Pnumber}, NullA) } :
      p \in Project }

ProjectRow(j) ==
  [Pnumber |-> Int_(j.p.Pnumber), Pname |-> j.p.Pname,
   department_name |-> j.d.Dname,
   headcount |-> Coalesce(j.a.headcount, Int_(0)),
   total_hours |-> Coalesce(j.a.total_hours, Int_(0))]

ProjectKeys(j) ==
  [Pname |-> j.p.Pname,
   headcount |-> Coalesce(j.a.headcount, Int_(0)),
   total_hours |-> Coalesce(j.a.total_hours, Int_(0))]

NullEmployee ==
  [Fname |-> None, Minit |-> None, Lname |-> None, Ssn |-> None,
   Address |-> None, Sex |-> None, Salary |-> None, Super_ssn |-> None,
   Dno |-> None, BDate |-> None, EmpDate |-> None]

NullWorksOn == [Essn |-> None, Pno |-> 0, Hours |-> 0]

\* FROM Department D LEFT JOIN Employee M ON D.Mgr_ssn = M.Ssn
\* LEFT JOIN Employee E ON E.Dno = D.Dnumber
\* LEFT JOIN Works_On W ON W.Essn = E.Ssn
ManagersJoin(E, W) ==
  UNION
    { UNION
        { { [D |-> d, M |-> m, E |-> e, W |-> y] :
              m \in LeftJoin({r \in E : r.Ssn = d.Mgr_ssn}, NullEmployee),
              y \in LeftJoin({r \in W : r.Essn = e.Ssn}, NullWorksOn) } :
          e \in LeftJoin({r \in E : r.Dno = Int_(d.Dnumber)},
                         NullEmployee) } :
      d \in Department }

\* COALESCE(M.Fname || ' ' || COALESCE(M.Minit || ' ', '') || M.Lname, 'N/A')
manager_name(j) ==
  Coalesce(Concat(Concat(Concat(j.M.Fname, Str(<<" ">>)),
                         Coalesce(Concat(j.M.Minit, Str(<<" ">>)),
                                  Str(<<>>))),
                  j.M.Lname),
           Str(<<"N", "/", "A">>))

\* GROUP BY D.Dname, D.Dnumber, manager_name
ManagersGroupKey(j) ==
  [Dname |-> j.D.Dname, Dnumber |-> Int_(j.D.Dnumber),
   manager_name |-> manager_name(j)]

\* One row per group: COUNT(E.Ssn) counts the joined rows of the group
\* whose E.Ssn is not NULL, SUM(W.Hours) adds the hours of those whose
\* Works_On side is not NULL.
ManagersGroups(J) ==
  { LET G == {j \in J : ManagersGroupKey(j) = g}
        worked == {j \in G : j.W.Essn.kind # "none"}
    IN [Dname |-> g.Dname, Dnumber |-> g.Dnumber,
        manager_name |-> g.manager_name,
        emp_count |-> Int_(Cardinality({j \in G : j.E.Ssn.kind # "none"})),
        total_hours |->
          Coalesce(IF worked = {} THEN None
                   ELSE Int_(SumHours({[id |-> j, Hours |-> j.W.Hours] :
                                         j \in worked})),
                   Int_(0))] :
    g \in {ManagersGroupKey(j) : j \in J} }

ManagersKeys(r) == [Dnumber |-> r.Dnumber]

----------------------------------------------------------------------------
(* A2-A6 and the exports: the pages that only read the store *)

\* A handler that passes the guard, reads the store on one connection and
\* renders or streams what it read.
ReadPage(handler, kind, target) ==
  /\ resp' = IF ensure_logged_in(session) # NoRedirect
             THEN LoginRedirect(handler)
             ELSE Response(handler, kind, target, NoFlash, "read", 1, 0)
  /\ UNCHANGED <<session, Employee, Works_On, credited, inflight>>
  /\ upload' = NoUpload

\* The page or file of an overview: the ORDER BY text that went into the
\* statement, the parameters bound to it, and the rows fetched.
Fetched(handler, kind, target, order, params, rows) ==
  [Response(handler, kind, target, NoFlash, "read", 1, 0)
     EXCEPT !.order = order, !.params = params, !.rows = rows]

sort_options ==
  [name_asc |-> "E.Lname ASC, E.Fname ASC",
   name_desc |-> "E.Lname DESC, E.Fname DESC",
   hours_asc |-> "total_hours ASC",
   hours_desc |-> "total_hours DESC"]

\* home and home_export: the arguments search, dept and sort of the URL.
\* A non-empty dept is turned into a number before a connection is opened.
OverviewRequest(handler, kind, target, search, dept, sort) ==
  LET name_filter == Strip(search)
      dept_text == Strip(dept)
      dept_int == PyInt(Str(dept_text))
      dept_filter == IF dept_text = <<>> THEN None ELSE Int_(dept_int.v)
      order == DictGet(sort_options, sort, "E.Lname ASC")
      name_pattern == <<"%">> \o name_filter \o <<"%">>
      bound == <<Str(name_filter), Str(name_pattern), dept_filter,
                 dept_filter>>
      J == OverviewJoin(Employee, Works_On, bound)
  IN /\ IF ensure_logged_in(session) # NoRedirect
        THEN resp' = LoginRedirect(handler)
        ELSE IF dept_text # <<>> /\ ~dept_int.ok
        THEN resp' = Fault(handler, "ValueError", 0, 0)
        ELSE \E q \in OrderBy(J, OverviewKeys, order) :
               resp' = Fetched(handler, kind, target, order, bound,
                               [i \in DOMAIN q |-> OverviewRow(q[i])])
     /\ UNCHANGED <<session, Employee, Works_On, credited, inflight>>
     /\ upload' = NoUpload

project_sort_options ==
  [headcount_asc |-> "headcount ASC",
   headcount_desc |-> "headcount DESC",
   hours_asc |-> "total_hours ASC",
   hours_desc |-> "total_hours DESC"]

\* projects and projects_export: the argument sort of the URL.
ProjectsRequest(handler, kind, target, sort) ==
  LET order == DictGet(project_sort_options, sort, "p.Pname ASC")
  IN /\ IF ensure_logged_in(session) # NoRedirect
        THEN resp' = LoginRedirect(handler)
        ELSE \E q \in OrderBy(ProjectsJoin(Works_On), ProjectKeys, order) :
               resp' = Fetched(handler, kind, target, order, <<>>,
                               [i \in DOMAIN q |-> ProjectRow(q[i])])
     /\ UNCHANGED <<session, Employee, Works_On, credited, inflight>>
     /\ upload' = NoUpload

\* The arguments of the requests in the application's runs.
SortArgs == {"name_asc", "hours_desc"}

home ==
  \E dept \in DeptArgs, sort \in SortArgs :
    OverviewRequest("home", "render", "home.html", <<>>, dept, sort)

projects ==
  \E sort \in SortArgs :
    ProjectsRequest("projects", "render", "projects.html", sort)

project_details ==
  ReadPage("project_details", "render", "project_details.html")

employees == ReadPage("employees", "render", "employees.html")

managers ==
  /\ IF ensure_logged_in(session) # NoRedirect
     THEN resp' = LoginRedirect("managers")
     ELSE \E q \in OrderBy(ManagersGroups(ManagersJoin(Employee, Works_On)),
                           ManagersKeys, "D.Dnumber") :
            resp' = Fetched("managers", "render", "managers.html",
                            "D.Dnumber", <<>>, q)
  /\ UNCHANGED <<session, Employee, Works_On, credited, inflight>>
  /\ upload' = NoUpload

home_export ==
  \E dept \in DeptArgs, sort \in SortArgs :
    OverviewRequest("home_export", "csv", "employee_overview.csv", <<>>,
                    dept, sort)

projects_export ==
  \E sort \in SortArgs :
    ProjectsRequest("projects_export", "csv", "project_overview.csv", sort)

----------------------------------------------------------------------------
(* A4: the assignment upsert *)

\* Python float(text), for texts that denote whole numbers.
PyFloat(c) == PyInt(c)

WithinHours(W) ==
  \A w \in W : w.Hours <= MaxHours /\ 0 - MaxHours <= w.Hours

\* The guard of a mutating handler: the response that ends the request
\* before the store is touched, or none.
NotAdmin(handler, target, flash) ==
  Response(handler, "redirect", target, flash, "not_admin", 0, 0)

\* The request ends with response r and changes nothing else.
Answer(r) ==
  /\ resp' = r
  /\ UNCHANGED <<session, Employee, Works_On, credited, inflight>>
  /\ upload' = NoUpload

add_assignment ==
  \E project_id \in ProjectIds, employee_ssn \in AssigneeForms,
     form_hours \in HoursForms :
    LET hours == PyFloat(form_hours)
        stmt == UpsertWorksOn(Employee, Works_On, employee_ssn, project_id,
                              hours.v)
        raised == stmt.err # NoError
        h == "add_assignment"
    IN IF ensure_logged_in(session) # NoRedirect
       THEN Answer(LoginRedirect(h))
       ELSE IF ~is_admin(session)
       THEN Answer(NotAdmin(h, "project_details", MsgAdminAssignments))
       ELSE IF ~hours.ok
       THEN Answer(Fault(h, "ValueError", 0, 0))
       ELSE /\ Works_On' = TxnOutcome(Works_On, stmt.table, raised)
            /\ WithinHours(Works_On')
            /\ credited' = IF raised THEN credited
                           ELSE Credit(credited,
                                       <<TextColumn(employee_ssn), project_id>>,
                                       hours.v)
            /\ resp' = IF raised THEN Fault(h, "psycopg.Error", 1, 1)
                       ELSE Response(h, "redirect", "project_details",
                                     NoFlash, "upserted", 1, 1)
            /\ UNCHANGED <<session, Employee, inflight>>
            /\ upload' = NoUpload

----------------------------------------------------------------------------
(* A5: employee management *)

AddFormSsn == {Str(Chars2), Str(Chars3)}
MinitForms == {Str(<<"M">>), Str(<<>>)}

\* The end of add_employee's POST: the except clause or the redirect.
add_employee_result(err) ==
  IF err # NoError
  THEN Response("add_employee", "redirect", "add_employee", MsgAddFailed,
                "rejected", 2, 1)
  ELSE Response("add_employee", "redirect", "employees", NoFlash, "added",
                2, 1)

add_employee ==
  \E method \in Methods, ssn \in AddFormSsn, form_minit \in MinitForms,
     salary \in SalaryForms, dno \in DnoForms :
    LET minit == Or(form_minit, None)
        params == [Fname |-> Str(NameA), Minit |-> minit,
                   Lname |-> Str(NameA), Ssn |-> ssn, Address |-> Str(Addr),
                   Sex |-> Str(<<"F">>), Salary |-> salary,
                   Super_ssn |-> None, Dno |-> dno, BDate |-> None,
                   EmpDate |-> None]
        stmt == InsertEmployee(Employee, params)
        h == "add_employee"
    IN IF ensure_logged_in(session) # NoRedirect
       THEN Answer(LoginRedirect(h))
       ELSE IF ~is_admin(session)
       THEN Answer(NotAdmin(h, "employees", MsgAdminAdd))
       ELSE IF method = "GET"
       THEN Answer(Response(h, "render", "employee_add.html", NoFlash,
                            "form", 1, 0))
       ELSE /\ Employee' = TxnOutcome(Employee, stmt.table,
                                      stmt.err # NoError)
            /\ resp' = add_employee_result(stmt.err)
            /\ UNCHANGED <<session, Works_On, credited, inflight>>
            /\ upload' = NoUpload

\* The end of edit_employee's POST: nothing catches what the UPDATE raises.
edit_employee_result(err) ==
  IF err # NoError
  THEN Fault("edit_employee", "psycopg.Error", 2, 1)
  ELSE Response("edit_employee", "redirect", "employees", NoFlash, "updated",
                2, 1)

edit_employee ==
  \E method \in Methods, ssn \in SsnForms, salary \in EditSalaryForms,
     dno \in EditDnoForms :
    LET stmt == UpdateEmployee(Employee, ssn, Str(Addr), salary, dno)
        h == "edit_employee"
    IN IF ensure_logged_in(session) # NoRedirect
       THEN Answer(LoginRedirect(h))
       ELSE IF ~is_admin(session)
       THEN Answer(NotAdmin(h, "employees", MsgAdminEdit))
       ELSE IF method = "GET"
       THEN Answer(Response(h, "render", "employee_edit.html", NoFlash,
                            "form", 1, 0))
       ELSE /\ Employee' = TxnOutcome(Employee, stmt.table,
                                      stmt.err # NoError)
            /\ resp' = edit_employee_result(stmt.err)
            /\ UNCHANGED <<session, Works_On, credited, inflight>>
            /\ upload' = NoUpload

delete_employee_uncaught(err) ==
  IF err # NoError
  THEN Fault("delete_employee", "psycopg.Error", 1, 1)
  ELSE Response("delete_employee", "redirect", "employees", NoFlash,
                "deleted", 1, 1)

\* The end of delete_employee: the except clause or the redirect.
delete_employee_result(err) ==
  IF err # NoError
  THEN Response("delete_employee", "redirect", "employees", MsgCannotDelete,
                "rejected", 1, 1)
  ELSE Response("delete_employee", "redirect", "employees", NoFlash,
                "deleted", 1, 1)

\* psycopg.connect inside the try block: the store answers, or the
\* connection fails with psycopg.OperationalError before any statement.
Unreachable(r) == [r EXCEPT !.stmts = 0]

delete_employee ==
  \E ssn \in SsnForms \cup {Str(Chars1)}, connected \in BOOLEAN :
    LET stmt == DeleteEmployee(Employee, Works_On, ssn)
        h == "delete_employee"
    IN IF ensure_logged_in(session) # NoRedirect
       THEN Answer(About(LoginRedirect(h), ssn))
       ELSE IF ~is_admin(session)
       THEN Answer(About(NotAdmin(h, "employees", MsgAdminDelete), ssn))
       ELSE IF ~connected
       THEN Answer(About(Unreachable(delete_employee_result("operational")),
                         ssn))
       ELSE /\ Employee' = TxnOutcome(Employee, stmt.table,
                                      stmt.err # NoError)
            /\ resp' = About(delete_employee_result(stmt.err), ssn)
            /\ UNCHANGED <<session, Works_On, credited, inflight>>
            /\ upload' = NoUpload

----------------------------------------------------------------------------
(* The Excel import *)

\* The columns of a sheet row, in order.
ColFname == 1
ColMinit == 2
ColLname == 3
ColSsn == 4
ColAddress == 5
ColSex == 6
ColSalary == 7
ColSuper == 8
ColDno == 9
ColBDate == 10
ColEmpDate == 11

expected ==
  << Str(<<"F", "n", "a", "m", "e">>), Str(<<"M", "i", "n", "i", "t">>),
     Str(<<"L", "n", "a", "m", "e">>), Str(<<"S", "s", "n">>),
     Str(<<"A", "d", "d", "r", "e", "s", "s">>), Str(<<"S", "e", "x">>),
     Str(<<"S", "a", "l", "a", "r", "y">>),
     Str(<<"S", "u", "p", "e", "r", "_", "s", "s", "n">>),
     Str(<<"D", "n", "o">>), Str(<<"B", "D", "a", "t", "e">>),
     Str(<<"E", "m", "p", "D", "a", "t", "e">>) >>

MsgHeader == "Header must be exactly: Fname, Minit, Lname, Ssn, Address, Sex, Salary, Super_ssn, Dno, BDate, EmpDate"
MsgMissing == "Missing required field on row"
MsgMinit == "Minit must be 1 character on row"
MsgSex == "Sex must be 1 character on row"
MsgSalary == "Salary must be integer on row"
MsgDno == "Dno must be integer on row"

ParseError(msg, idx) ==
  [ok |-> FALSE, msg |-> msg, row |-> idx, employees |-> <<>>]

\* [col or "" for col in cols] != expected
HeaderMismatch(cols) ==
  [i \in 1..Len(cols) |-> Or(cols[i], Str(<<>>))] # expected

\* fname and minit and lname and ssn and address and sex and salary and dno
RequiredPresent(employee) ==
  \A c \in {ColFname, ColMinit, ColLname, ColSsn, ColAddress, ColSex,
            ColSalary, ColDno} : Truthy(employee[c])

\* One pass of the loop body: the tuple to append, or the error raised.
ParseEmployee(employee, idx) ==
  IF ~RequiredPresent(employee) THEN ParseError(MsgMissing, idx)
  ELSE IF Len(PyStr(employee[ColMinit])) # 1 THEN ParseError(MsgMinit, idx)
  ELSE IF Len(PyStr(employee[ColSex])) # 1 THEN ParseError(MsgSex, idx)
  ELSE IF ~PyInt(employee[ColSalary]).ok THEN ParseError(MsgSalary, idx)
  ELSE IF ~PyInt(employee[ColDno]).ok THEN ParseError(MsgDno, idx)
  ELSE [ok |-> TRUE, msg |-> "", row |-> idx,
        employees |->
          << [employee EXCEPT
                ![ColSalary] = Int_(PyInt(employee[ColSalary]).v),
                ![ColDno] = Int_(PyInt(employee[ColDno]).v),
                ![ColSuper] = Or(employee[ColSuper], None)] >>]

RECURSIVE ParseRows(_, _, _)
\* The loop over the data rows, idx counting from 2.
ParseRows(rows, idx, emps) ==
  IF rows = <<>>
  THEN [ok |-> TRUE, msg |-> "", row |-> 0, employees |-> emps]
  ELSE LET one == ParseEmployee(Head(rows), idx)
       IN IF ~one.ok THEN one
          ELSE ParseRows(Tail(rows), idx + 1, emps \o one.employees)

parse_employee_sheet(sheet) ==
  IF HeaderMismatch(sheet.cols) THEN ParseError(MsgHeader, 0)
  ELSE ParseRows(sheet.rows, 2, <<>>)

\* The parameters of the INSERT, from a parsed tuple.
InsertParams(e) ==
  [Fname |-> e[ColFname], Minit |-> e[ColMinit], Lname |-> e[ColLname],
   Ssn |-> e[ColSsn], Address |-> e[ColAddress], Sex |-> e[ColSex],
   Salary |-> e[ColSalary], Super_ssn |-> e[ColSuper], Dno |-> e[ColDno],
   BDate |-> e[ColBDate], EmpDate |-> e[ColEmpDate]]

RECURSIVE InsertEach(_, _, _)
\* The loop of INSERT statements on one connection: it stops at the first
\* statement the store rejects.  stmts counts the statements executed.
InsertEach(E, emps, stmts) ==
  IF emps = <<>>
  THEN [err |-> NoError, table |-> E, stmts |-> stmts]
  ELSE LET stmt == InsertEmployee(E, InsertParams(Head(emps)))
       IN IF stmt.err # NoError
          THEN [err |-> stmt.err, table |-> E, stmts |-> stmts + 1]
          ELSE InsertEach(stmt.table, Tail(emps), stmts + 1)

MsgUpload == "Please upload a file."
MsgNotXlsx == "Please upload a valid .xlsx file."
MsgUnreadable == "Unable to read Excel file."
MsgImported == "Successfully imported employees."
MsgImportFailed == "Import failed (maybe duplicate SSN)"

\* str.lower(), for the letters of the extension.
Lower(ch) ==
  CASE ch = "X" -> "x" [] ch = "L" -> "l" [] ch = "S" -> "s" [] OTHER -> ch

EndsWithXlsx(name) ==
  /\ Len(name) >= 5
  /\ [i \in 1..5 |-> Lower(name[Len(name) - 5 + i])]
       = <<".", "x", "l", "s", "x">>

\* One request to import_employees.  An upload is the file of the form:
\* its name (empty: no file), whether openpyxl can load it, and its sheet.
ImportRequest(method, file) ==
  LET h == "import_employees"
      back(flash, branch) ==
        Response(h, "redirect", "import_employees", flash, branch, 0, 0)
      parsed == parse_employee_sheet(file.sheet)
      done == InsertEach(Employee, parsed.employees, 0)
      answer(r) ==
        /\ resp' = r
        /\ UNCHANGED <<session, Employee, Works_On, credited, inflight>>
  IN /\ upload' = IF method = "POST" THEN file ELSE NoUpload
     /\ IF ensure_logged_in(session) # NoRedirect
        THEN answer(LoginRedirect(h))
        ELSE IF ~is_admin(session)
        THEN answer(NotAdmin(h, "employees", MsgAdminImport))
        ELSE IF method = "GET"
        THEN answer(Response(h, "render", "import_employees.html", NoFlash,
                             "form", 0, 0))
        ELSE IF file.filename = <<>>
        THEN answer(back(MsgUpload, "no_file"))
        ELSE IF ~EndsWithXlsx(file.filename)
        THEN answer(back(MsgNotXlsx, "not_xlsx"))
        ELSE IF ~file.loads
        THEN answer(back(MsgUnreadable, "unreadable"))
        ELSE IF ~parsed.ok
        THEN answer([back(parsed.msg, "invalid") EXCEPT !.row = parsed.row])
        ELSE /\ Employee' = TxnOutcome(Employee, done.table,
                                       done.err # NoError)
             /\ resp' =
                  IF done.err # NoError
                  THEN [back(MsgImportFailed, "rejected") EXCEPT
                          !.db = 1, !.stmts = done.stmts]
                  ELSE [Response(h, "redirect", "employees", MsgImported,
                                 "imported", 1, done.stmts) EXCEPT
                          !.count = Len(parsed.employees)]
             /\ UNCHANGED <<session, Works_On, credited, inflight>>

----------------------------------------------------------------------------
(* The uploads the model sends *)

GoodRow(ssn, dno) ==
  << Str(NameA), Str(<<"M">>), Str(NameA), ssn, Str(Addr), Str(<<"F">>),
     Int_(5), None, dno, None, None >>

Cell(row, col, c) == [row EXCEPT ![col] = c]

Row3 == GoodRow(Int_(3), Int_(1))
Row4 == GoodRow(Str(Chars4), Str(<<" ", "2">>))

\* Rows that pass parse_employee_sheet; the store accepts some of them.
ValidRows ==
  { Row3, Row4,
    GoodRow(Str(Chars2), Int_(1)),             \* the Ssn of employee 2
    Cell(Row4, ColSuper, Str(Chars3)),         \* supervised by employee 3
    Cell(Row3, ColSuper, Str(<<>>)),           \* an empty supervisor cell
    Cell(Row4, ColDno, Int_(9)),               \* no such department
    Cell(Row3, ColMinit, Int_(7)) }            \* a one-digit number

\* Rows with one cell a check of parse_employee_sheet refuses.
InvalidRows ==
  { Cell(Row3, ColFname, None),
    Cell(Row4, ColSalary, Str(<<>>)),
    Cell(Row4, ColSalary, Int_(0)),
    Cell(Row3, ColMinit, Str(<<"M", "X">>)),
    Cell(Row3, ColSex, Str(<<"F", "M">>)),
    Cell(Row3, ColSalary, Str(<<"s">>)),
    Cell(Row4, ColDno, Str(<<"d">>)) }

RECURSIVE SeqsUpTo(_, _)
\* The sequences of at most n elements of S.
SeqsUpTo(S, n) ==
  IF n = 0 THEN {<<>>}
  ELSE LET shorter == SeqsUpTo(S, n - 1)
       IN shorter \cup {Append(q, x) : q \in shorter, x \in S}

FileName == <<"e", ".", "X", "l", "s", "x">>

Upload(cols, rows) ==
  [filename |-> FileName, loads |-> TRUE,
   sheet |-> [cols |-> cols, rows |-> rows]]

BadHeaders ==
  { [expected EXCEPT ![ColFname] = Str(<<"f", "n", "a", "m", "e">>)],
    [expected EXCEPT ![ColEmpDate] = None],
    Append(expected, None) }

\* Sheets of up to MaxRows data rows under the expected header, and one-row
\* sheets under the others.
SheetUploads ==
  {Upload(expected, rows) : rows \in SeqsUpTo(ValidRows \cup InvalidRows,
                                              MaxRows)}
  \cup {Upload(cols, <<row>>) :
          cols \in BadHeaders, row \in {Row3, Cell(Row3, ColFname, None)}}

\* The uploads of the whole application's runs: a few sheets, and the files
\* that never reach the parser.
Uploads ==
  { Upload(expected, <<Row3>>),
    Upload(expected, <<Row3, GoodRow(Str(Chars2), Int_(1))>>),
    Upload(expected, <<Row3, Cell(Row4, ColSalary, Str(<<>>))>>),
    Upload([expected EXCEPT ![ColEmpDate] = None], <<Row3>>),
    [Upload(expected, <<Row3>>) EXCEPT !.filename = <<>>],
    [Upload(expected, <<Row3>>) EXCEPT !.filename = <<"e", ".", "c", "s", "v">>],
    [Upload(expected, <<Row3>>) EXCEPT !.loads = FALSE] }

import_employees ==
  \E method \in Methods, file \in Uploads : ImportRequest(method, file)

----------------------------------------------------------------------------
(* The application, one request at a time *)

Next ==
  \/ login
  \/ logout
  \/ home
  \/ projects
  \/ project_details
  \/ add_assignment
  \/ employees
  \/ add_employee
  \/ edit_employee
  \/ delete_employee
  \/ managers
  \/ home_export
  \/ projects_export
  \/ import_employees

Spec == Init /\ [][Next]_vars

----------------------------------------------------------------------------
(* add_assignment handled by several workers at once *)

ConcurrentHours == {Str(<<"1">>), Str(<<"2">>)}

RowNeverLocked(w, essn, pno) == FALSE

\* The statement locks the row of its pair until its transaction ends: a
\* second statement for the pair waits for the first one's commit.
RowLocked(w, essn, pno) ==
  \E v \in Workers \ {w} :
    /\ inflight[v].pc = "executed"
    /\ inflight[v].essn = essn
    /\ inflight[v].pno = pno

\* A worker takes a request: the guards and the form values.
add_assignment_begin(w) ==
  \E project_id \in ProjectIds, employee_ssn \in AssigneeForms,
     form_hours \in ConcurrentHours :
    LET hours == PyFloat(form_hours)
        h == "add_assignment"
        answer(r) == resp' = r /\ inflight' = inflight
    IN /\ inflight[w].pc = "idle"
       /\ IF ensure_logged_in(session) # NoRedirect
          THEN answer(LoginRedirect(h))
          ELSE IF ~is_admin(session)
          THEN answer(NotAdmin(h, "project_details", MsgAdminAssignments))
          ELSE IF ~hours.ok
          THEN answer(Fault(h, "ValueError", 0, 0))
          ELSE /\ inflight' = [inflight EXCEPT ![w] =
                                 [pc |-> "parsed", essn |-> employee_ssn,
                                  pno |-> project_id, hours |-> hours.v,
                                  written |-> 0]]
               /\ resp' = resp
       /\ UNCHANGED <<session, Employee, Works_On, credited>>
       /\ upload' = NoUpload

\* The worker's statement runs in its transaction: it is rejected (the
\* exception leaves the handler and the transaction is rolled back), or it
\* writes the pair's row, which stays locked and unseen until the commit.
add_assignment_execute(w) ==
  LET r == inflight[w]
      stmt == UpsertWorksOn(Employee, Works_On, r.essn, r.pno, r.hours)
      row == CHOOSE x \in stmt.table :
               AssignmentKey(x) = <<TextColumn(r.essn), r.pno>>
  IN /\ r.pc = "parsed"
     /\ ~RowLocked(w, r.essn, r.pno)
     /\ IF stmt.err # NoError
        THEN /\ inflight' = [inflight EXCEPT ![w] = Idle]
             /\ resp' = Fault("add_assignment", "psycopg.Error", 1, 1)
        ELSE /\ WithinHours(stmt.table)
             /\ inflight' = [inflight EXCEPT ![w] =
                               [r EXCEPT !.pc = "executed",
                                         !.written = row.Hours]]
             /\ resp' = resp
     /\ UNCHANGED <<session, Employee, Works_On, credited>>
     /\ upload' = NoUpload

\* The with block ends: the transaction commits the row it wrote, and the
\* worker redirects.
add_assignment_commit(w) ==
  LET r == inflight[w]
      key == <<TextColumn(r.essn), r.pno>>
  IN /\ r.pc = "executed"
     /\ Works_On' = {x \in Works_On : AssignmentKey(x) # key}
                    \cup {[Essn |-> key[1], Pno |-> key[2],
                           Hours |-> r.written]}
     /\ credited' = Credit(credited, key, r.hours)
     /\ inflight' = [inflight EXCEPT ![w] = Idle]
     /\ resp' = Response("add_assignment", "redirect", "project_details",
                         NoFlash, "upserted", 1, 1)
     /\ UNCHANGED <<session, Employee>>
     /\ upload' = NoUpload

NextConcurrent ==
  \/ login
  \/ logout
  \/ \E w \in Workers : add_assignment_begin(w)
  \/ \E w \in Workers : add_assignment_execute(w)
  \/ \E w \in Workers : add_assignment_commit(w)

SpecConcurrent == Init /\ [][NextConcurrent]_vars

----------------------------------------------------------------------------
(* One import request against each store and session it can meet *)

AdminLoggedIn == [username |-> 1, role |-> "admin"]
ViewerLoggedIn == [username |-> 2, role |-> "viewer"]

\* The Employee table as it starts, and after employee 3 was added.
ImportStartTables ==
  { InitialEmployee,
    InitialEmployee \cup {EmployeeRow(Chars3, NameA, 5, None, 1)} }

InitImport ==
  /\ session \in {EmptySession, AdminLoggedIn, ViewerLoggedIn}
  /\ Employee \in ImportStartTables
  /\ Works_On = {}
  /\ resp = Response("", "", "", NoFlash, "", 0, 0)
  /\ upload = NoUpload
  /\ credited = [k \in {} |-> 0]
  /\ inflight = [w \in Workers |-> Idle]

\* The first request of the run posts a sheet.
import_sheet ==
  /\ resp.handler = ""
  /\ \E file \in SheetUploads : ImportRequest("POST", file)

NextImport == import_sheet

SpecImport == InitImport /\ [][NextImport]_vars

----------------------------------------------------------------------------
(* Claims about the application, checked under Spec *)

MutatingHandlers ==
  {"add_assignment", "add_employee", "edit_employee", "delete_employee",
   "import_employees"}

AdminOnlyMessages ==
  {MsgAdminAssignments, MsgAdminAdd, MsgAdminEdit, MsgAdminDelete,
   MsgAdminImport}

LoggedIn == "username" \in DOMAIN session
AdminSession == LoggedIn /\ session["role"] = "admin"

\* C1: a request to add_assignment, add_employee, edit_employee,
\* delete_employee or import_employees made with a logged-in session whose
\* role is not admin leaves Employee and Works_On as they were, issues no
\* INSERT/UPDATE/DELETE, and answers with a redirect and an admin-only flash.
C1_ViewerNeverMutates ==
  [][ (LoggedIn /\ ~AdminSession /\ resp'.handler \in MutatingHandlers)
      => /\ Employee' = Employee
         /\ Works_On' = Works_On
         /\ resp'.stmts = 0
         /\ resp'.kind = "redirect"
         /\ resp'.flash \in AdminOnlyMessages ]_vars

\* A viewer's delete_employee request was turned away.
C1_Witness ==
  /\ LoggedIn
  /\ session["role"] = "viewer"
  /\ resp.handler = "delete_employee"
  /\ resp.flash = MsgAdminDelete

\* C2: while the session holds no identity marker, every handler other than
\* login and logout answers with a redirect to the login page, opens no
\* database connection and leaves every table alone.
C2_GuardRedirectsToLogin ==
  [][ (~LoggedIn /\ resp'.handler \notin {"login", "logout"})
      => /\ resp'.kind = "redirect"
         /\ resp'.target = "login"
         /\ resp'.db = 0
         /\ resp'.stmts = 0
         /\ Employee' = Employee
         /\ Works_On' = Works_On ]_vars

\* After an admin changed the store and the session was cleared again, a
\* page request was sent to the login page.
C2_Witness ==
  /\ ~LoggedIn
  /\ Employee # InitialEmployee
  /\ resp.handler = "employees"
  /\ resp.kind = "redirect"
  /\ resp.target = "login"

LoginFailed == resp.handler = "login" /\ resp.branch \in {"no_user", "bad_password"}

\* C3 as stated: a login POST for an unknown username and one with a wrong
\* password are answered alike (the same flash, the same redirect to login)
\* and both leave the session without identity or role.
C3_FailedLoginLeavesNoIdentity ==
  LoginFailed
  => /\ resp.kind = "redirect"
     /\ resp.target = "login"
     /\ resp.flash = MsgInvalidLogin
     /\ "username" \notin DOMAIN session
     /\ "role" \notin DOMAIN session

\* C3 as amended: a login POST for an unknown username and one with a wrong
\* password are answered alike (the same flash, the same redirect to login)
\* and both leave the session exactly as it was before the request.
C3_FailedLoginsAlike ==
  [][ (resp'.handler = "login" /\ resp'.branch \in {"no_user", "bad_password"})
      => /\ resp'.kind = "redirect"
         /\ resp'.target = "login"
         /\ resp'.flash = MsgInvalidLogin
         /\ session' = session ]_vars

\* A wrong password for an existing user, sent from a session that holds no
\* identity.
C3_Witness ==
  /\ resp.handler = "login"
  /\ resp.branch = "bad_password"
  /\ ~LoggedIn

\* C4: Works_On holds at most one row per (employee, project) pair, and
\* the row's hours are the hours the pair started with plus the hours of
\* every successful add_assignment call for the pair.
C4_HoursAccumulate ==
  /\ \A v, w \in Works_On : AssignmentKey(v) = AssignmentKey(w) => v = w
  /\ {AssignmentKey(w) : w \in Works_On} = DOMAIN credited
  /\ \A w \in Works_On : w.Hours = credited[AssignmentKey(w)]

\* A call that found the pair's row and took it to 0 hours: no single call
\* submits 0, so the row was incremented.
C4_Witness ==
  /\ resp.handler = "add_assignment"
  /\ resp.branch = "upserted"
  /\ \E w \in Works_On : w.Hours = 0

\* C9: an admin's delete_employee request for an employee a Works_On row
\* references is answered with a redirect and a flash message, no fault
\* leaves the handler, and Employee and Works_On are as they were.
C9_ReferencedDeleteRejected ==
  [][ (/\ AdminSession
       /\ resp'.handler = "delete_employee"
       /\ \E e \in Employee : e.Ssn = resp'.ssn
       /\ \E w \in Works_On : w.Essn = resp'.ssn)
      => /\ resp'.kind = "redirect"
         /\ resp'.flash = MsgCannotDelete
         /\ Employee' = Employee
         /\ Works_On' = Works_On ]_vars

\* The store refused to delete employee 2, who has an assignment.
C9_Witness ==
  /\ resp.handler = "delete_employee"
  /\ resp.branch = "rejected"
  /\ resp.ssn = Str(Chars2)
  /\ \E w \in Works_On : w.Essn = Str(Chars2)
  /\ \E e \in Employee : e.Ssn = Str(Chars2)

\* C10: no handler that mutates the store lets a rejection of its
\* INSERT/UPDATE/DELETE leave the handler: each answers with a redirect and
\* a flash message.
C10_NoStoreFaultEscapes ==
  (resp.handler \in MutatingHandlers /\ resp.stmts > 0)
  => (resp.kind = "redirect"
      /\ (resp.branch = "rejected" => resp.flash # NoFlash))

----------------------------------------------------------------------------
(* Claims about concurrent assignment requests, checked under              *)
(* SpecConcurrent                                                          *)

\* C5: however the add_assignment requests of several workers for one
\* (employee, project) pair interleave, no update is lost: the pair has a
\* single row, and it holds the hours the pair started with plus the hours
\* of every request that has completed.
C5_NoLostUpdate ==
  \A key \in DOMAIN credited :
    /\ Cardinality({w \in Works_On : AssignmentKey(w) = key}) = 1
    /\ \A w \in Works_On : AssignmentKey(w) = key => w.Hours = credited[key]

\* Two requests for the pair (employee 2, project 10) are in flight at once
\* over a row that already holds hours: one has run its statement, the
\* other waits to run its own.
C5_Witness ==
  \E v, w \in Workers :
    /\ v # w
    /\ inflight[v].pc = "executed"
    /\ inflight[w].pc = "parsed"
    /\ inflight[v].essn = Str(Chars2) /\ inflight[w].essn = Str(Chars2)
    /\ inflight[v].pno = 10 /\ inflight[w].pno = 10
    /\ \E x \in Works_On : AssignmentKey(x) = <<Str(Chars2), 10>>

----------------------------------------------------------------------------
(* Claims about the import, checked under SpecImport *)

\* The posted sheet reached parse_employee_sheet and its header is the
\* expected one.
SheetParsed ==
  /\ resp.handler = "import_employees"
  /\ AdminSession
  /\ upload.sheet.cols = expected

DataRows == upload.sheet.rows

RequiredCols ==
  {ColFname, ColMinit, ColLname, ColSsn, ColAddress, ColSex, ColSalary,
   ColDno}

\* An empty cell: no value, or the empty text.
Blank(c) == c.kind = "none" \/ (c.kind = "str" /\ c.s = <<>>)

EmptyRequired(row) == \E c \in RequiredCols : Blank(row[c])

\* A data row that breaks none of the rules of the import: the required
\* cells hold a number or a non-empty text, Minit and Sex are one character
\* long, Salary and Dno denote integers.
RowInOrder(row) ==
  /\ ~EmptyRequired(row)
  /\ Len(PyStr(row[ColMinit])) = 1
  /\ Len(PyStr(row[ColSex])) = 1
  /\ PyInt(row[ColSalary]).ok
  /\ PyInt(row[ColDno]).ok

\* The sheet row number of the first data row that breaks a rule.
FirstOffendingRow ==
  1 + CHOOSE i \in 1..Len(DataRows) :
        /\ ~RowInOrder(DataRows[i])
        /\ \A j \in 1..(i - 1) : RowInOrder(DataRows[j])

\* C6: import_employees is all-or-nothing: when the store rejects an
\* insert, Employee is what it was before the request; when it rejects
\* none, Employee has gained exactly the parsed rows.
C6_ImportAllOrNothing ==
  [][ (resp'.handler = "import_employees")
      => /\ resp'.branch = "rejected" => Employee' = Employee
         /\ resp'.branch = "imported"
              => /\ Employee \subseteq Employee'
                 /\ Cardinality(Employee')
                      = Cardinality(Employee) + Len(upload'.sheet.rows)
                 /\ \A i \in 1..Len(upload'.sheet.rows) :
                      \E e \in Employee' :
                        e.Ssn = TextColumn(upload'.sheet.rows[i][ColSsn])
         /\ resp'.branch \notin {"rejected", "imported"}
              => Employee' = Employee ]_vars

\* The store accepted the first row of a sheet and rejected the second.
C6_Witness ==
  /\ resp.handler = "import_employees"
  /\ resp.branch = "rejected"
  /\ resp.stmts = 2
  /\ Employee \in ImportStartTables

\* C7: when a data row of the sheet has an empty required field, no INSERT
\* is attempted and the message names the sheet row number (the header
\* being row 1) of the first offending row.
C7_EmptyFieldReported ==
  (SheetParsed /\ \E i \in 1..Len(DataRows) : EmptyRequired(DataRows[i]))
  => /\ resp.branch = "invalid"
     /\ resp.stmts = 0
     /\ resp.row = FirstOffendingRow

\* C8: under the expected header, when every data row is in order the parse
\* succeeds with one tuple per data row, and an import the store accepts
\* inserts and reports that many rows.
C8_RowsInOrderAreImported ==
  (SheetParsed /\ \A i \in 1..Len(DataRows) : RowInOrder(DataRows[i]))
  => /\ resp.branch \in {"imported", "rejected"}
     /\ resp.branch = "imported"
          => resp.count = Len(DataRows) /\ resp.stmts = Len(DataRows)

----------------------------------------------------------------------------
(* Claims about the assignment form, checked under Spec *)

\* The hours the table holds for a pair; a pair without a row holds none.
HoursOf(W, key) ==
  IF \E w \in W : AssignmentKey(w) = key
  THEN (CHOOSE w \in W : AssignmentKey(w) = key).Hours
  ELSE 0

\* C11: add_assignment accepts only non-negative hours: no add_assignment
\* request leaves any (employee, project) pair with fewer hours than the
\* pair held before the request.
C11_HoursNeverLowered ==
  [][ (resp'.handler = "add_assignment")
      => \A w \in Works_On \cup Works_On' :
           HoursOf(Works_On', AssignmentKey(w))
             >= HoursOf(Works_On, AssignmentKey(w)) ]_vars

----------------------------------------------------------------------------
(* The overviews over any store contents *)

NameC == <<"C", "y">>

\* Employee 1 and employee 2 share their last name; employee 3 has a
\* middle initial and works in the department without a manager.
Staff1 == EmployeeRow(Chars1, NameB, 5, None, 1)
Staff2 == [EmployeeRow(Chars2, NameB, 5, None, 1) EXCEPT !.Fname = Str(NameB)]
Staff3 ==
  [EmployeeRow(Chars3, NameC, 5, None, 2) EXCEPT !.Minit = Str(<<"M">>)]

Assignment(essn, pno, hours) ==
  [Essn |-> Str(essn), Pno |-> pno, Hours |-> hours]

AssignmentPool ==
  { Assignment(Chars1, 10, 1), Assignment(Chars2, 10, 1),
    Assignment(Chars2, 20, 2), Assignment(Chars3, 20, 1) }

\* The stores the schema admits over these rows: employee 1, whom the
\* fixed tables reference, is there; every assignment is of an employee
\* who is.
OverviewStores ==
  { st \in [Employee : {{Staff1} \cup S : S \in SUBSET {Staff2, Staff3}},
            Works_On : SUBSET AssignmentPool] :
      \A x \in st.Works_On : \E e \in st.Employee : e.Ssn = x.Essn }

SearchArgs ==
  { <<>>, <<" ">>, <<" ", "b", "O">>, <<"l", " ", "B">>, <<"c">>, <<"_">>,
    <<"%">> }

OverviewDeptArgs == {<<>>, <<"1">>, <<" ", "2">>, <<"d">>}

OverviewSortArgs ==
  { "name_asc", "name_desc", "hours_asc", "hours_desc", "", "NAME_ASC",
    "E.Ssn; DROP TABLE Employee" }

InitOverview ==
  /\ session \in {EmptySession, ViewerLoggedIn}
  /\ \E st \in OverviewStores :
       /\ Employee = st.Employee
       /\ Works_On = st.Works_On
  /\ resp = Response("", "", "", NoFlash, "", 0, 0)
  /\ upload = NoUpload
  /\ credited = [k \in {AssignmentKey(x) : x \in Works_On} |->
                   (CHOOSE x \in Works_On : AssignmentKey(x) = k).Hours]
  /\ inflight = [i \in Workers |-> Idle]

\* The first request a client sends.
FirstRequest == resp.handler = ""

home_any ==
  \E search \in SearchArgs, dept \in OverviewDeptArgs,
     sort \in OverviewSortArgs :
    FirstRequest /\
    OverviewRequest("home", "render", "home.html", search, dept, sort)

home_export_any ==
  \E search \in SearchArgs, dept \in OverviewDeptArgs,
     sort \in OverviewSortArgs :
    FirstRequest /\
    OverviewRequest("home_export", "csv", "employee_overview.csv", search,
                    dept, sort)

projects_any ==
  \E sort \in OverviewSortArgs :
    FirstRequest /\
    ProjectsRequest("projects", "render", "projects.html", sort)

projects_export_any ==
  \E sort \in OverviewSortArgs :
    FirstRequest /\
    ProjectsRequest("projects_export", "csv", "project_overview.csv", sort)

managers_any == FirstRequest /\ managers

NextOverview ==
  \/ home_any
  \/ home_export_any
  \/ projects_any
  \/ projects_export_any
  \/ managers_any

SpecOverview == InitOverview /\ [][NextOverview]_vars

----------------------------------------------------------------------------
(* Claims about the overviews, checked under SpecOverview *)

\* The request was answered with rows fetched by the handler.
Read(handler) == resp.handler = handler /\ resp.branch = "read"

Rows == resp.rows

\* home ran its statement with an empty name filter and no department.
EmptyFilters ==
  /\ Read("home")
  /\ resp.params[1] = Str(<<>>)
  /\ resp.params[3] = None

\* C12: with empty search and empty dept the employee overview has exactly
\* one row for every Employee row, whatever the number of the employee's
\* dependents and assignments, and an employee without dependents and
\* assignments is listed with the counts and the hours 0, not NULL.
C12_EmptyFiltersListEveryEmployee ==
  EmptyFilters
  => /\ Len(Rows) = Cardinality(Employee)
     /\ \A e \in Employee :
          Cardinality({i \in DOMAIN Rows : Rows[i].Ssn = e.Ssn}) = 1
     /\ \A i \in DOMAIN Rows :
          ( /\ ~\E d \in Dependent : d.Essn = Rows[i].Ssn
            /\ ~\E x \in Works_On : x.Essn = Rows[i].Ssn )
          => /\ Rows[i].dependent_count = Int_(0)
             /\ Rows[i].project_count = Int_(0)
             /\ Rows[i].total_hours = Int_(0)

\* The overview of a store where employee 1 has two dependents, employee 2
\* two assignments and employee 3 neither.
C12_Witness ==
  /\ EmptyFilters
  /\ Employee = {Staff1, Staff2, Staff3}
  /\ {Assignment(Chars2, 10, 1), Assignment(Chars2, 20, 2)} \subseteq Works_On
  /\ ~\E x \in Works_On : x.Essn = Str(Chars3)
  /\ Cardinality({d \in Dependent : d.Essn = Str(Chars1)}) = 2

\* home or home_export ran its statement with a non-empty name filter.
Searched ==
  /\ resp.handler \in {"home", "home_export"}
  /\ resp.branch = "read"
  /\ resp.params[1] # Str(<<>>)

\* Text t contains text s, letters compared without regard to case.
Contains(t, s) ==
  \E i \in 0..(Len(t) - Len(s)) :
    SubSeq(FoldText(t), i + 1, i + Len(s)) = FoldText(s)

\* The employees a search for s under the request's dept filter is to list.
Sought(s) ==
  { e \in Employee :
      /\ Contains(e.Fname.s \o <<" ">> \o e.Lname.s, s)
      /\ resp.params[3] = None \/ e.Dno = resp.params[3] }

\* C13: for a non-empty search s the employee overview lists exactly the
\* employees, among those of the dept filter, whose first name, a space
\* and last name contain s as a literal substring, compared without
\* regard to case.
C13_SearchIsLiteralSubstring ==
  Searched
  => {Rows[i].Ssn : i \in DOMAIN Rows}
       = {e.Ssn : e \in Sought(resp.params[1].s)}

\* The values of a mapping.
Fragments(d) == {d[k] : k \in DOMAIN d}

\* C14: the ORDER BY text of the statements of home, projects, home_export
\* and projects_export is a fragment of the handler's whitelist or its
\* fixed default, whatever the client sent as sort, and the search and dept
\* filters are in the bound parameters, not in the statement.
C14_OrderByFromWhitelist ==
  /\ (Read("home") \/ Read("home_export"))
     => /\ resp.order \in Fragments(sort_options) \cup {"E.Lname ASC"}
        /\ Len(resp.params) = 4
        /\ resp.params[2].s = <<"%">> \o resp.params[1].s \o <<"%">>
        /\ resp.params[4] = resp.params[3]
  /\ (Read("projects") \/ Read("projects_export"))
     => /\ resp.order \in Fragments(project_sort_options) \cup {"p.Pname ASC"}
        /\ resp.params = <<>>

\* A request whose sort is no key of the whitelist was answered from the
\* default fragment, with a search that holds a wildcard character bound
\* as a parameter.
C14_Witness ==
  /\ Read("home_export")
  /\ resp.order = "E.Lname ASC"
  /\ resp.params[1] = Str(<<"%">>)
  /\ resp.params[3] = Int_(2)

\* The employee a row of the overview is about.
EmployeeOf(row) == CHOOSE e \in Employee : e.Ssn = row.Ssn

\* Employee a comes before employee b by last name, then first name.
NameBefore(a, b) ==
  \/ TextLess(a.Lname.s, b.Lname.s)
  \/ a.Lname = b.Lname /\ TextLess(a.Fname.s, b.Fname.s)

NameAscending ==
  \A i, k \in DOMAIN Rows :
    i < k => ~NameBefore(EmployeeOf(Rows[k]), EmployeeOf(Rows[i]))

\* C15: for a sort token outside name_asc, name_desc, hours_asc and
\* hours_desc (the statement is then ordered by the default fragment) the
\* rows of the employee overview and of its export come as for name_asc:
\* by last name ascending, then first name ascending.
C15_UnknownSortIsNameAscending ==
  ( /\ Read("home") \/ Read("home_export")
    /\ resp.order = "E.Lname ASC" )
  => NameAscending

\* The employees whose department reference is department dno.
Members(dno) == {e \in Employee : e.Dno = dno}

\* C16: the managers overview has exactly one row per department; its
\* employee count is the number of Employee rows that refer to the
\* department, whatever their number of Works_On rows, and its total hours
\* the sum of the Works_On hours of those employees, 0 when there is none.
C16_ManagersCountsEmployees ==
  Read("managers")
  => /\ Len(Rows) = Cardinality(Department)
     /\ \A d \in Department :
          \E i \in DOMAIN Rows :
            /\ Rows[i].Dnumber = Int_(d.Dnumber)
            /\ Rows[i].total_hours
                 = Int_(SumHours({x \in Works_On :
                                    \E e \in Members(Int_(d.Dnumber)) :
                                      e.Ssn = x.Essn}))
            /\ Rows[i].emp_count
                 = Int_(Cardinality(Members(Int_(d.Dnumber))))

----------------------------------------------------------------------------
(* Claims about the messages of delete_employee, checked under Spec *)

\* C17: when the store rejects an admin's delete_employee request, the
\* "cannot delete" message is flashed only for a referential-integrity
\* rejection (the DELETE ran and the employee is still referenced); any
\* other store failure gets a different message.
C17_CannotDeleteOnlyWhenReferenced ==
  (resp.handler = "delete_employee" /\ resp.flash = MsgCannotDelete)
  => /\ resp.stmts = 1
     /\ EmployeeReferenced({e \in Employee : e.Ssn # resp.ssn}, Works_On,
                           resp.ssn)

====
